---------------------------- MODULE Spec2Model ----------------------------
(***************************************************************************)
(* A model of download_images.py: the name resolution (sanitize_filename,  *)
(* guess_extension, build_base_and_ext), the success ledger                *)
(* (load_logged_names, append_log) and the sequential download loop        *)
(* (iter_csv_rows, download_file, main).                                   *)
(*                                                                         *)
(* Strings are sequences of one-character strings, so that the string      *)
(* operations of the code (re.sub, str.strip, urlparse, Path.name,         *)
(* Path.stem, Path.suffix) are computed and not assumed.                   *)
(***************************************************************************)
EXTENDS Integers, Sequences, FiniteSets, TLC

(***************************************************************************)
(* Bounds of the model.                                                    *)
(***************************************************************************)
\* rows of target.csv
MaxRows == 2
\* characters of the URL path drawn in the name-resolution specification
MaxPathLen == 5

(***************************************************************************)
(* String helpers (Python's str and pathlib, as the code uses them).       *)
(***************************************************************************)
Whitespace == {" "}

RECURSIVE LStrip(_)
LStrip(s) ==
    IF s = <<>> THEN s
    ELSE IF Head(s) \in Whitespace THEN LStrip(Tail(s)) ELSE s

RECURSIVE RStrip(_)
RStrip(s) ==
    IF s = <<>> THEN s
    ELSE IF s[Len(s)] \in Whitespace THEN RStrip(SubSeq(s, 1, Len(s) - 1)) ELSE s

\* str.strip()
Strip(s) == RStrip(LStrip(s))

\* the first index >= i of s holding a character of cs, 0 when there is none
RECURSIVE Find(_, _, _)
Find(s, cs, i) ==
    IF i > Len(s) THEN 0
    ELSE IF s[i] \in cs THEN i ELSE Find(s, cs, i + 1)

\* the last index <= i of s holding character c, 0 when there is none
RECURSIVE RFind(_, _, _)
RFind(s, c, i) ==
    IF i < 1 THEN 0
    ELSE IF s[i] = c THEN i ELSE RFind(s, c, i - 1)

RECURSIVE Split(_, _)
Split(s, c) ==
    LET i == Find(s, {c}, 1)
    IN  IF i = 0 THEN <<s>>
        ELSE <<SubSeq(s, 1, i - 1)>> \o Split(SubSeq(s, i + 1, Len(s)), c)

IsPathPart(x) == x # <<>> /\ x # <<".">>

LastOrEmpty(parts) == IF parts = <<>> THEN <<>> ELSE parts[Len(parts)]

\* Path(p).name: the last component of p; empty and "." components are dropped
PathName(p) == LastOrEmpty(SelectSeq(Split(p, "/"), IsPathPart))

\* a name from its last dot, at index i, unless the name starts or ends with
\* that dot or has none (i = 0)
NameSuffix(name, i) ==
    IF 1 < i /\ i < Len(name) THEN SubSeq(name, i, Len(name)) ELSE <<>>

NameStem(name, i) ==
    IF 1 < i /\ i < Len(name) THEN SubSeq(name, 1, i - 1) ELSE name

SuffixOf(name) == NameSuffix(name, RFind(name, ".", Len(name)))
StemOf(name) == NameStem(name, RFind(name, ".", Len(name)))

\* Path(p).suffix
PathSuffix(p) == SuffixOf(PathName(p))

\* Path(p).stem
PathStem(p) == StemOf(PathName(p))

SchemeStart == {"a", "b", "c", "h", "j", "x", "y"}
SchemeChars == SchemeStart \cup {"+", "-", "."}

\* s from index i on, nothing when i = 0
FromIndex(s, i) == IF i = 0 THEN <<>> ELSE SubSeq(s, i, Len(s))

\* s before index i, all of it when i = 0
BeforeIndex(s, i) == IF i = 0 THEN s ELSE SubSeq(s, 1, i - 1)

\* u without the scheme that ends at its first colon, at index i
DropSchemeAt(u, i) ==
    IF /\ i > 1
       /\ u[1] \in SchemeStart
       /\ \A k \in 1..(i - 1) : u[k] \in SchemeChars
    THEN SubSeq(u, i + 1, Len(u))
    ELSE u

DropScheme(u) == DropSchemeAt(u, Find(u, {":"}, 1))

\* u without its //netloc
DropNetloc(u) ==
    IF Len(u) >= 2 /\ u[1] = "/" /\ u[2] = "/"
    THEN FromIndex(u, Find(u, {"/", "?", "#"}, 3))
    ELSE u

\* u without its ?query and its #fragment
DropQuery(u) == BeforeIndex(u, Find(u, {"?", "#"}, 1))

\* urlparse(url).path
UrlPath(url) == DropQuery(DropNetloc(DropScheme(LStrip(url))))

(***************************************************************************)
(* Name resolution.                                                        *)
(***************************************************************************)
INVALID_CHARS == {"\\", "/", ":", "*", "?", "\"", "<", ">", "|"}

Unnamed == <<"u", "n", "n", "a", "m", "e", "d">>
DefaultLabel == <<"i", "m", "a", "g", "e">>
DotBin == <<".", "b", "i", "n">>
DotPng == <<".", "p", "n", "g">>
DotJpg == <<".", "j", "p", "g">>

\* the absent Content-Type header (None)
NoType == "None"

\* a substitution that keeps every character
Substituted_keep(name) == name

\* INVALID_CHARS.sub("_", name)
Substituted(name) ==
    [i \in 1..Len(name) |-> IF name[i] \in INVALID_CHARS THEN "_" ELSE name[i]]

\* cleaned or "unnamed"
OrUnnamed(cleaned) == IF cleaned = <<>> THEN Unnamed ELSE cleaned

sanitize_filename(name) == OrUnnamed(Strip(Substituted(name)))

\* content_type.split(";")[0].strip() of the headers the model draws
MediaType(ct) ==
    CASE ct = "image/jpeg; q=1" -> "image/jpeg"
      [] OTHER                  -> ct

\* mimetypes.guess_extension: <<>> stands for None
MimeExtension(mt) ==
    CASE mt = "image/png"  -> DotPng
      [] mt = "image/jpeg" -> DotJpg
      [] OTHER             -> <<>>

\* guess_extension once the suffix of the URL's path is known
GuessFrom(url_ext, content_type) ==
    IF url_ext # <<>> THEN url_ext
    ELSE IF content_type # NoType /\ MimeExtension(MediaType(content_type)) # <<>>
    THEN MimeExtension(MediaType(content_type))
    ELSE DotBin

guess_extension(url, content_type) ==
    GuessFrom(PathSuffix(UrlPath(url)), content_type)

\* ext if ext.startswith(".") else "." + ext
WithDot(ext) == IF ext # <<>> /\ ext[1] = "." THEN ext ELSE <<".">> \o ext

\* the default extension, whatever the name
ResolveExt_bin(url, ext) == DotBin

\* the extension build_base_and_ext returns for the extension ext of the name
ResolveExt(url, ext) ==
    WithDot(IF ext = <<>> THEN guess_extension(url, NoType) ELSE ext)

\* <<base, ext>> from the sanitized file name of the URL
FromFilename(url, safe_name) ==
    <<PathStem(safe_name), ResolveExt(url, PathSuffix(safe_name))>>

\* <<base, ext>> from the sanitized label
FromLabel(url, safe_name) == <<safe_name, ResolveExt(url, <<>>)>>

\* build_base_and_ext once the file name of the URL's path is known
BaseAndExt(name, url, orig_filename) ==
    IF orig_filename # <<>>
    THEN FromFilename(url, sanitize_filename(orig_filename))
    ELSE FromLabel(url, sanitize_filename(IF name # <<>> THEN name ELSE DefaultLabel))

\* <<base, ext>>
build_base_and_ext(name, url) == BaseAndExt(name, url, PathName(UrlPath(url)))

\* f"{base}{ext}"
Joined(be) == be[1] \o be[2]

\* candidate_name
CandidateName(name, url) == Joined(build_base_and_ext(name, url))

(***************************************************************************)
(* The success ledger: a file is the sequence of its lines.                *)
(***************************************************************************)
\* only the line itself is registered
NamesOf_lineOnly(line, url_name) == IF line = <<>> THEN {} ELSE {line}

\* the names a stripped line registers, url_name being the file name of its path
NamesOf(line, url_name) ==
    IF line = <<>> THEN {}
    ELSE {line} \cup (IF url_name # <<>> THEN {sanitize_filename(url_name)} ELSE {})

StrippedNames(line) == NamesOf(line, PathName(UrlPath(line)))

\* the names one line of the ledger registers
LineNames(raw) == StrippedNames(Strip(raw))

\* a missing file is the file without lines
load_logged_names(lines) == UNION {LineNames(lines[i]) : i \in 1..Len(lines)}

(***************************************************************************)
(* Inputs of the download loop.                                            *)
(***************************************************************************)
UrlA == <<"h", ":", "/", "/", "x", "/", "a", ".", "j">>
UrlDir == <<"h", ":", "/", "/", "x", "/">>
UrlB == <<"h", ":", "/", "/", "x", "/", "b">>

\* the rows target.csv is made of: a row is the sequence of its fields
RowSet ==
    { <<<<"c">>, UrlA>>,
      <<<<"b">>, UrlDir>>,
      <<<<" ", "c">>, UrlB, <<"x">>>>,
      <<<<"c">>, <<" ">>>> }

\* rows whose URL gives a candidate name that ends with a blank: the path of
\* UrlBlank is "/a. /", its file name "a. "
UrlBlank == <<"h", ":", "/", "/", "x", "/", "a", ".", " ", "/">>
BlankRows == { <<<<"c">>, UrlBlank>>, <<<<"c">>, UrlA>> }

RECURSIVE SeqsUpTo(_, _)
SeqsUpTo(S, n) ==
    IF n = 0 THEN {<<>>}
    ELSE LET shorter == SeqsUpTo(S, n - 1)
         IN  shorter \cup {Append(q, x) : q \in {r \in shorter : Len(r) = n - 1}, x \in S}

\* the files downloads/ may hold before the first run: a name is mapped to
\* its content, [from |-> the URL fetched, bytes |-> "old" | "full" | "none"]
OldFile == [from |-> <<>>, bytes |-> "old"]
NoFile == << >>
InitDisks == {NoFile, [n \in {<<"a", ".", "j">>} |-> OldFile]}

\* the success.log a run may start from (a missing file has no line); the
\* second starts from a line of the legacy format, a full URL
InitLedgers == {<<>>, <<UrlA>>}

\* what the network answers to one request
UrlopenErrors == {"HTTPError", "URLError", "TimeoutError"}
ReadErrors == {"TimeoutError", "ContentTooShortError"}
ContentTypes == {NoType, "image/jpeg; q=1", "foo/bar"}
\* the header matters only to a response whose body is read to its end
Responses ==
    {[open |-> e, ctype |-> NoType, read |-> "ok"] : e \in UrlopenErrors}
    \cup {[open |-> "ok", ctype |-> c, read |-> "ok"] : c \in ContentTypes}
    \cup {[open |-> "ok", ctype |-> NoType, read |-> e] : e \in ReadErrors}
NoResponse == [open |-> "none", ctype |-> NoType, read |-> "none"]

\* scaled down from the 50 of the source, so that a run reaches a batch pause
BATCH_PAUSE_EVERY == 2

(***************************************************************************)
(* The operations on files.                                                *)
(***************************************************************************)
\* the line is not written
append_log_lost(file, message) == file

\* append_log(path, message): one more line
append_log(file, message) == Append(file, message)

\* a check of existence that never finds the file
PathExists_never(name, d) == FALSE

\* Path.exists() of downloads/<name>
PathExists(name, d) == name \in DOMAIN d

\* a check of the ledger that never finds the name
InLedger_never(name, names) == FALSE

\* candidate_name in already_success
InLedger(name, names) == name \in names

\* the name is not added to the set
AddName_forget(names, name) == names

\* already_success.add(name)
AddName(names, name) == names \cup {name}

\* the file system with file name holding content
WriteFile(d, name, content) ==
    [n \in DOMAIN d \cup {name} |-> IF n = name THEN content ELSE d[n]]

\* an except clause that leaves TimeoutError out
Caught_noTimeout == {"HTTPError", "URLError", "ContentTooShortError"}

\* the exceptions download_file handles
Caught == {"HTTPError", "URLError", "ContentTooShortError", "TimeoutError"}

\* a row counts as soon as it has two fields
IsRecord_twoFields(row) == Len(row) >= 2

\* iter_csv_rows: the <<name, url>> of the rows with two fields and a URL
IsRecord(row) == Len(row) >= 2 /\ Strip(row[2]) # <<>>
RowRecord(row) == <<Strip(row[1]), Strip(row[2])>>
RecordsOf(valid) == [i \in 1..Len(valid) |-> RowRecord(valid[i])]
iter_csv_rows(rows) == RecordsOf(SelectSeq(rows, IsRecord))

\* what download_file leaves: the path returned (<<>> for None), the exception
\* that escapes it ("" when none does), the name it opened for writing (<<>>
\* when none) and the three files
Result(path, raised, wrote, d, slog, flog) ==
    [path |-> path, raised |-> raised, wrote |-> wrote, disk |-> d,
     slog |-> slog, flog |-> flog]

\* an except clause that writes its line to success.log as well
Except_toLedger(url, exc, wrote, d, slog, flog) ==
    Result(<<>>, "", wrote, d, append_log(slog, url), append_log(flog, <<url, exc>>))

\* exception exc reaches the except clause
Except(url, exc, wrote, d, slog, flog) ==
    IF exc \in Caught
    THEN Result(<<>>, "", wrote, d, slog, append_log(flog, <<url, exc>>))
    ELSE Result(<<>>, exc, wrote, d, slog, flog)

\* the body of "with urlopen(...)" once target_path is known: the file is
\* opened for writing before response.read() is called
Transfer(url, target, resp, d, slog, flog) ==
    IF PathExists(target, d)
    THEN Result(<<>>, "", <<>>, d, append_log(slog, target), flog)
    ELSE IF resp.read # "ok"
    THEN Except(url, resp.read, target,
                WriteFile(d, target, [from |-> url, bytes |-> "none"]), slog, flog)
    ELSE Result(target, "", target,
                WriteFile(d, target, [from |-> url, bytes |-> "full"]),
                append_log(slog, target), flog)

\* target_path.name: f"{base}{resolved_ext}"
TargetName(url, base, ext, content_type) ==
    base \o WithDot(IF ext # <<>> THEN ext ELSE guess_extension(url, content_type))

\* download_file when the network answers resp
download_file(name, url, base, ext, resp, d, slog, flog) ==
    IF resp.open # "ok"
    THEN Except(url, resp.open, <<>>, d, slog, flog)
    ELSE Transfer(url, TargetName(url, base, ext, resp.ctype), resp, d, slog, flog)

(***************************************************************************)
(* The state.                                                              *)
(***************************************************************************)
VARIABLES
    csvExists,        \* target.csv exists
    csv,              \* its rows
    disk,             \* downloads/
    successLog,       \* logs/success.log, its lines
    failedLog,        \* logs/failed.log, its lines <<url, exception>>
    already_success,  \* main's set of logged names
    total,            \* main's count of the records taken
    saved,            \* main's count of the files saved
    pc,               \* "idle", "running", "done", "aborted", "crashed"
    run,              \* the calls of main so far: a run, then a rerun
    outcome,          \* this run: how each record ended
    fetched,          \* this run: the records a request was sent for
    opened,           \* this run: the names opened for writing
    sleptAt,          \* this run: the values of total a batch pause followed
    lastResp,         \* the answer to the request of the step just taken
    disk0,            \* downloads/ when this run started
    log0,             \* success.log when this run started
    flog0,            \* failed.log when this run started
    n_name, n_url,    \* name resolution: the label and the URL resolved
    n_step,           \* name resolution: "input", "resolved", "loaded", "named"
    n_base, n_ext,    \* name resolution: what build_base_and_ext returned
    n_cand,           \* name resolution: the candidate name
    n_names,          \* name resolution: the names loaded from the ledger
    n_type,           \* name resolution: the Content-Type of the response
    n_target,         \* name resolution: the name download_file writes to
    p_pc,             \* passes: where each pass of main stands
    p_names,          \* passes: already_success of each pass
    p_total,          \* passes: total of each pass
    p_saved,          \* passes: saved of each pass
    p_target,         \* passes: target_path.name of the download under way
    p_fetched,        \* passes: the records each pass sent a request for
    p_wrote,          \* passes: the names each pass opened for writing
    p_logged          \* passes: the names each pass appended to success.log

engineVars == <<csvExists, csv, disk, successLog, failedLog, already_success,
                total, saved, pc, run, outcome, fetched, opened, sleptAt,
                lastResp, disk0, log0, flog0>>
nameVars == <<n_name, n_url, n_step, n_base, n_ext, n_cand, n_names, n_type,
              n_target>>
passVars == <<p_pc, p_names, p_total, p_saved, p_target, p_fetched, p_wrote,
              p_logged>>
vars == <<csvExists, csv, disk, successLog, failedLog, already_success,
          total, saved, pc, run, outcome, fetched, opened, sleptAt,
          lastResp, disk0, log0, flog0,
          n_name, n_url, n_step, n_base, n_ext, n_cand, n_names, n_type, n_target,
          p_pc, p_names, p_total, p_saved, p_target, p_fetched, p_wrote, p_logged>>

NamesIdle ==
    /\ n_name = <<>> /\ n_url = <<>> /\ n_step = "off"
    /\ n_base = <<>> /\ n_ext = <<>>
    /\ n_cand = <<>> /\ n_names = {}
    /\ n_type = NoType /\ n_target = <<>>

\* the two passes of main that the specifications of passes run
Passes == {1, 2}

PassesIdle ==
    /\ p_pc = [p \in Passes |-> "off"]
    /\ p_names = [p \in Passes |-> {}]
    /\ p_total = [p \in Passes |-> 0]
    /\ p_saved = [p \in Passes |-> 0]
    /\ p_target = [p \in Passes |-> <<>>]
    /\ p_fetched = [p \in Passes |-> {}]
    /\ p_wrote = [p \in Passes |-> {}]
    /\ p_logged = [p \in Passes |-> {}]

\* the state before main is first called, target.csv made of rows of rowset
InitOver(rowset) ==
    /\ csvExists \in BOOLEAN
    /\ csv \in SeqsUpTo(rowset, MaxRows)
    /\ disk \in InitDisks
    /\ successLog \in InitLedgers
    /\ failedLog = <<>>
    /\ already_success = {}
    /\ total = 0 /\ saved = 0
    /\ pc = "idle" /\ run = 0
    /\ outcome = <<>> /\ fetched = <<>> /\ opened = <<>> /\ sleptAt = {}
    /\ lastResp = NoResponse
    /\ disk0 = disk /\ log0 = successLog /\ flog0 = failedLog
    /\ NamesIdle
    /\ PassesIdle

Init == InitOver(RowSet)

(***************************************************************************)
(* main().                                                                 *)
(***************************************************************************)
\* main is called and target.csv is missing: FileNotFoundError
Abort ==
    /\ pc \in {"idle", "aborted"} /\ run \in {0, 1}
    /\ ~csvExists
    /\ pc' = "aborted"
    /\ run' = run + 1
    /\ UNCHANGED <<csvExists, csv, disk, successLog, failedLog, already_success,
                   total, saved, outcome, fetched, opened, sleptAt, lastResp,
                   disk0, log0, flog0>>
    /\ UNCHANGED nameVars
    /\ UNCHANGED passVars

\* main is called, a first time or again over the same input: the ledger is
\* loaded, the counters start at 0
Start ==
    /\ pc \in {"idle", "done"} /\ run \in {0, 1}
    /\ csvExists
    /\ already_success' = load_logged_names(successLog)
    /\ total' = 0 /\ saved' = 0
    /\ pc' = "running"
    /\ run' = run + 1
    /\ outcome' = <<>> /\ fetched' = <<>> /\ opened' = <<>> /\ sleptAt' = {}
    /\ lastResp' = NoResponse
    /\ disk0' = disk /\ log0' = successLog /\ flog0' = failedLog
    /\ UNCHANGED <<csvExists, csv, disk, successLog, failedLog>>
    /\ UNCHANGED nameVars
    /\ UNCHANGED passVars

\* the loop has a record to take
Looping(records) == pc = "running" /\ total < Len(records)

\* the record the loop takes next
NextRecord(records) == records[total + 1]

\* the name is in already_success: continue
SkipLoggedAs(cand) ==
    /\ InLedger(cand, already_success)
    /\ total' = total + 1
    /\ outcome' = Append(outcome, "SkipLogged")
    /\ lastResp' = NoResponse
    /\ UNCHANGED <<csvExists, csv, disk, successLog, failedLog, already_success,
                   saved, pc, run, fetched, opened, sleptAt, disk0, log0, flog0>>
    /\ UNCHANGED nameVars
    /\ UNCHANGED passVars

\* the file is in downloads/: log the name, continue
SkipOnDiskAs(cand) ==
    /\ ~InLedger(cand, already_success)
    /\ PathExists(cand, disk)
    /\ successLog' = append_log(successLog, cand)
    /\ already_success' = AddName(already_success, cand)
    /\ total' = total + 1
    /\ outcome' = Append(outcome, "SkipDisk")
    /\ lastResp' = NoResponse
    /\ UNCHANGED <<csvExists, csv, disk, failedLog, saved, pc, run, fetched,
                   opened, sleptAt, disk0, log0, flog0>>
    /\ UNCHANGED nameVars
    /\ UNCHANGED passVars

\* how a record that reached download_file ended
OutcomeOf(r) ==
    IF r.raised # "" THEN "Raised"
    ELSE IF r.path # <<>> THEN "Ok"
    ELSE IF r.flog # failedLog THEN "Failed"
    ELSE "SkipDisk"

\* the rest of the turn after download_file left r; an exception that escapes
\* download_file ends main
AfterDownload(r) ==
    /\ disk' = r.disk
    /\ successLog' = r.slog
    /\ failedLog' = r.flog
    /\ fetched' = Append(fetched, total + 1)
    /\ opened' = IF r.wrote # <<>> THEN Append(opened, r.wrote) ELSE opened
    /\ total' = total + 1
    /\ outcome' = Append(outcome, OutcomeOf(r))
    /\ pc' = IF r.raised # "" THEN "crashed" ELSE pc
    /\ saved' = IF r.raised = "" /\ r.path # <<>> THEN saved + 1 ELSE saved
    /\ already_success' = IF r.raised = "" /\ r.path # <<>>
                          THEN AddName(already_success, r.path)
                          ELSE already_success
    /\ sleptAt' = IF r.raised = "" /\ (total + 1) % BATCH_PAUSE_EVERY = 0
                  THEN sleptAt \cup {total + 1}
                  ELSE sleptAt

\* neither check skips the record: download_file, the count, the batch pause
DownloadAs(rec, be, resp) ==
    /\ ~InLedger(Joined(be), already_success)
    /\ ~PathExists(Joined(be), disk)
    /\ lastResp' = resp
    /\ AfterDownload(download_file(rec[1], rec[2], be[1], be[2], resp,
                                   disk, successLog, failedLog))
    /\ UNCHANGED <<csvExists, csv, run, disk0, log0, flog0>>
    /\ UNCHANGED nameVars
    /\ UNCHANGED passVars

\* build_base_and_ext of every record the rows drawn give, worked out once
DrawnRecords == {RowRecord(row) : row \in {r \in RowSet \cup BlankRows : IsRecord(r)}}
BaseAndExtOf == [rec \in DrawnRecords |-> build_base_and_ext(rec[1], rec[2])]

DownloadOf(rec, resp) == DownloadAs(rec, BaseAndExtOf[rec], resp)

CandidateOf(rec) == Joined(BaseAndExtOf[rec])

\* one turn of the loop, by the branch it takes
SkipLogged ==
    /\ Looping(iter_csv_rows(csv))
    /\ SkipLoggedAs(CandidateOf(NextRecord(iter_csv_rows(csv))))

SkipOnDisk ==
    /\ Looping(iter_csv_rows(csv))
    /\ SkipOnDiskAs(CandidateOf(NextRecord(iter_csv_rows(csv))))

Download ==
    /\ Looping(iter_csv_rows(csv))
    /\ \E resp \in Responses : DownloadOf(NextRecord(iter_csv_rows(csv)), resp)

\* the rows are exhausted: the summary is printed
Finish ==
    /\ pc = "running" /\ total = Len(iter_csv_rows(csv))
    /\ pc' = "done"
    /\ lastResp' = NoResponse
    /\ UNCHANGED <<csvExists, csv, disk, successLog, failedLog, already_success,
                   total, saved, run, outcome, fetched, opened, sleptAt,
                   disk0, log0, flog0>>
    /\ UNCHANGED nameVars
    /\ UNCHANGED passVars

Next == Abort \/ Start \/ SkipLogged \/ SkipOnDisk \/ Download \/ Finish

Spec == Init /\ [][Next]_vars

\* one call of main, which goes on to its end: the loop takes its next turn
NextOnce ==
    \/ (run = 0 /\ Abort)
    \/ (run = 0 /\ Start)
    \/ SkipLogged \/ SkipOnDisk \/ Download \/ Finish

SpecFair ==
    /\ Init /\ [][NextOnce]_vars
    /\ WF_vars(SkipLogged \/ SkipOnDisk \/ Download \/ Finish)

\* the same runs over rows whose URL gives a candidate name that ends with a
\* blank
InitBlank == InitOver(BlankRows)
SpecBlank == InitBlank /\ [][Next]_vars

TypeOK ==
    /\ pc \in {"idle", "running", "done", "aborted", "crashed"}
    /\ total \in 0..MaxRows /\ saved \in 0..total
    /\ run \in {0, 1, 2}
    /\ Len(outcome) = total

(***************************************************************************)
(* Name resolution on its own: a label and a URL are drawn, the candidate  *)
(* name is resolved, and a ledger of the legacy format, which holds the    *)
(* URL as a line, is loaded.                                               *)
(***************************************************************************)
PathChars == {"/", ".", "a", "j", ":", " ", "?"}
Labels == {<<>>, <<"c">>, <<"a", ":", "b">>}
UrlPrefix == <<"h", ":", "/", "/", "x">>

\* the URLs drawn: iter_csv_rows hands over stripped URLs only
DrawnUrls ==
    {u \in {UrlPrefix \o q : q \in SeqsUpTo(PathChars, MaxPathLen)} : Strip(u) = u}

EngineIdle ==
    /\ csvExists = FALSE /\ csv = <<>> /\ disk = NoFile
    /\ successLog = <<>> /\ failedLog = <<>> /\ already_success = {}
    /\ total = 0 /\ saved = 0 /\ pc = "off" /\ run = 0
    /\ outcome = <<>> /\ fetched = <<>> /\ opened = <<>> /\ sleptAt = {}
    /\ lastResp = NoResponse
    /\ disk0 = NoFile /\ log0 = <<>> /\ flog0 = <<>>

InitNames ==
    /\ EngineIdle
    /\ PassesIdle
    /\ n_name \in Labels
    /\ n_url \in DrawnUrls
    /\ n_step = "input"
    /\ n_base = <<>> /\ n_ext = <<>>
    /\ n_cand = <<>>
    /\ n_names = {}
    /\ n_type = NoType /\ n_target = <<>>

\* base, ext and candidate_name of main
ResolveAs(be) ==
    /\ n_base' = be[1]
    /\ n_ext' = be[2]
    /\ n_cand' = Joined(be)

\* main resolves the name of the record drawn
Resolve ==
    /\ n_step = "input"
    /\ ResolveAs(build_base_and_ext(n_name, n_url))
    /\ n_step' = "resolved"
    /\ UNCHANGED <<n_name, n_url, n_names, n_type, n_target>>
    /\ UNCHANGED engineVars
    /\ UNCHANGED passVars

\* load_logged_names of a ledger that holds the URL as a line
Load ==
    /\ n_step = "resolved"
    /\ n_names' = load_logged_names(<<n_url>>)
    /\ n_step' = "loaded"
    /\ UNCHANGED <<n_name, n_url, n_base, n_ext, n_cand, n_type, n_target>>
    /\ UNCHANGED engineVars
    /\ UNCHANGED passVars

\* download_file names its target once the response has come
Target ==
    /\ n_step = "loaded"
    /\ \E ct \in ContentTypes :
          /\ n_type' = ct
          /\ n_target' = TargetName(n_url, n_base, n_ext, ct)
    /\ n_step' = "named"
    /\ UNCHANGED <<n_name, n_url, n_base, n_ext, n_cand, n_names>>
    /\ UNCHANGED engineVars
    /\ UNCHANGED passVars

NextNames == Resolve \/ Load \/ Target

SpecNames == InitNames /\ [][NextNames]_vars

(***************************************************************************)
(* Passes of main, step by step: main and download_file taken apart at     *)
(* their accesses to downloads/ and to the logs, so that two passes can    *)
(* interleave and a pass can be interrupted between two accesses.  A pass  *)
(* stands at "idle", "loop" (between two records), "request" (urlopen      *)
(* called), "recheck" (the response has come), "open" (target_path does    *)
(* not exist), "read" (the file is open for writing), "log" (the file is   *)
(* written), "done", "dead" (interrupted) or "crashed".                    *)
(***************************************************************************)
InitPasses ==
    /\ csvExists = TRUE
    /\ csv \in SeqsUpTo(RowSet, MaxRows)
    /\ disk \in InitDisks
    /\ successLog \in InitLedgers
    /\ failedLog = <<>>
    /\ already_success = {}
    /\ total = 0 /\ saved = 0 /\ pc = "off" /\ run = 0
    /\ outcome = <<>> /\ fetched = <<>> /\ opened = <<>> /\ sleptAt = {}
    /\ lastResp = NoResponse
    /\ disk0 = disk /\ log0 = successLog /\ flog0 = failedLog
    /\ NamesIdle
    /\ p_pc = [p \in Passes |-> "idle"]
    /\ p_names = [p \in Passes |-> {}]
    /\ p_total = [p \in Passes |-> 0]
    /\ p_saved = [p \in Passes |-> 0]
    /\ p_target = [p \in Passes |-> <<>>]
    /\ p_fetched = [p \in Passes |-> {}]
    /\ p_wrote = [p \in Passes |-> {}]
    /\ p_logged = [p \in Passes |-> {}]

\* what no pass changes
PassFrame ==
    /\ UNCHANGED <<csvExists, csv, already_success, total, saved, pc, run,
                   outcome, fetched, opened, sleptAt, lastResp, flog0>>
    /\ UNCHANGED nameVars

\* the record pass p is at, and its candidate name
PassRecord(p) == iter_csv_rows(csv)[p_total[p] + 1]
PassCandidate(p) == CandidateOf(PassRecord(p))

\* pass p is between two records and has one to take
PassLooping(p) == p_pc[p] = "loop" /\ p_total[p] < Len(iter_csv_rows(csv))

\* the turn of pass p ends: the next record
PassOn(p) ==
    /\ p_total' = [p_total EXCEPT ![p] = p_total[p] + 1]
    /\ p_pc' = [p_pc EXCEPT ![p] = "loop"]
    /\ p_target' = [p_target EXCEPT ![p] = <<>>]

\* main is called: the ledger is loaded
PBegin(p) ==
    /\ p_pc[p] = "idle"
    /\ csvExists
    /\ p_names' = [p_names EXCEPT ![p] = load_logged_names(successLog)]
    /\ p_pc' = [p_pc EXCEPT ![p] = "loop"]
    /\ disk0' = disk /\ log0' = successLog
    /\ UNCHANGED <<disk, successLog, failedLog, p_total, p_saved, p_target,
                   p_fetched, p_wrote, p_logged>>
    /\ PassFrame

\* the name is in already_success: continue
PSkipLogged(p) ==
    /\ PassLooping(p)
    /\ InLedger(PassCandidate(p), p_names[p])
    /\ PassOn(p)
    /\ UNCHANGED <<disk, successLog, failedLog, disk0, log0, p_names, p_saved,
                   p_fetched, p_wrote, p_logged>>
    /\ PassFrame

\* the file is in downloads/: log the name, continue
PSkipOnDiskAs(p, cand) ==
    /\ ~InLedger(cand, p_names[p])
    /\ PathExists(cand, disk)
    /\ successLog' = append_log(successLog, cand)
    /\ p_names' = [p_names EXCEPT ![p] = AddName(p_names[p], cand)]
    /\ p_logged' = [p_logged EXCEPT ![p] = p_logged[p] \cup {cand}]
    /\ PassOn(p)
    /\ UNCHANGED <<disk, failedLog, disk0, log0, p_saved, p_fetched, p_wrote>>
    /\ PassFrame

PSkipOnDisk(p) == PassLooping(p) /\ PSkipOnDiskAs(p, PassCandidate(p))

\* neither check skips the record: download_file is called, urlopen sends
\* the request
PRequestAs(p, cand) ==
    /\ ~InLedger(cand, p_names[p])
    /\ ~PathExists(cand, disk)
    /\ p_pc' = [p_pc EXCEPT ![p] = "request"]
    /\ p_fetched' = [p_fetched EXCEPT ![p] = p_fetched[p] \cup {p_total[p] + 1}]
    /\ UNCHANGED <<disk, successLog, failedLog, disk0, log0, p_names, p_total,
                   p_saved, p_target, p_wrote, p_logged>>
    /\ PassFrame

PRequest(p) == PassLooping(p) /\ PRequestAs(p, PassCandidate(p))

\* exception exc is raised in download_file: the except clause
PRaise(p, url, exc) ==
    /\ IF exc \in Caught
       THEN /\ failedLog' = append_log(failedLog, <<url, exc>>)
            /\ PassOn(p)
       ELSE /\ p_pc' = [p_pc EXCEPT ![p] = "crashed"]
            /\ UNCHANGED <<failedLog, p_total, p_target>>
    /\ UNCHANGED <<successLog, disk0, log0, p_names, p_saved, p_fetched, p_logged>>
    /\ PassFrame

\* urlopen returns a response with header content_type: the target is named
PRespondAs(p, rec, be, content_type) ==
    /\ p_target' = [p_target EXCEPT ![p] = TargetName(rec[2], be[1], be[2], content_type)]
    /\ p_pc' = [p_pc EXCEPT ![p] = "recheck"]
    /\ UNCHANGED <<disk, successLog, failedLog, disk0, log0, p_names, p_total,
                   p_saved, p_fetched, p_wrote, p_logged>>
    /\ PassFrame

\* urlopen raises, or returns
PRespond(p) ==
    /\ p_pc[p] = "request"
    /\ \/ \E exc \in UrlopenErrors :
             /\ PRaise(p, PassRecord(p)[2], exc)
             /\ UNCHANGED <<disk, p_wrote>>
       \/ \E ct \in ContentTypes :
             PRespondAs(p, PassRecord(p), BaseAndExtOf[PassRecord(p)], ct)

\* target_path.exists(): log the name and return None, or go on to write
PRecheck(p) ==
    /\ p_pc[p] = "recheck"
    /\ IF PathExists(p_target[p], disk)
       THEN /\ successLog' = append_log(successLog, p_target[p])
            /\ p_logged' = [p_logged EXCEPT ![p] = p_logged[p] \cup {p_target[p]}]
            /\ PassOn(p)
       ELSE /\ p_pc' = [p_pc EXCEPT ![p] = "open"]
            /\ UNCHANGED <<successLog, p_logged, p_total, p_target>>
    /\ UNCHANGED <<disk, failedLog, disk0, log0, p_names, p_saved, p_fetched,
                   p_wrote>>
    /\ PassFrame

\* target_path.open("wb"): the file is created, or truncated
POpen(p) ==
    /\ p_pc[p] = "open"
    /\ disk' = WriteFile(disk, p_target[p],
                         [from |-> PassRecord(p)[2], bytes |-> "none"])
    /\ p_wrote' = [p_wrote EXCEPT ![p] = p_wrote[p] \cup {p_target[p]}]
    /\ p_pc' = [p_pc EXCEPT ![p] = "read"]
    /\ UNCHANGED <<successLog, failedLog, disk0, log0, p_names, p_total,
                   p_saved, p_target, p_fetched, p_logged>>
    /\ PassFrame

\* fp.write(response.read()): the body is written and the file closed
PWrite(p) ==
    /\ disk' = WriteFile(disk, p_target[p],
                         [from |-> PassRecord(p)[2], bytes |-> "full"])
    /\ p_pc' = [p_pc EXCEPT ![p] = "log"]
    /\ UNCHANGED <<successLog, failedLog, disk0, log0, p_names, p_total,
                   p_saved, p_target, p_fetched, p_wrote, p_logged>>
    /\ PassFrame

\* response.read() raises, or the body is written
PRead(p) ==
    /\ p_pc[p] = "read"
    /\ \/ \E exc \in ReadErrors :
             /\ PRaise(p, PassRecord(p)[2], exc)
             /\ UNCHANGED <<disk, p_wrote>>
       \/ PWrite(p)

\* the name is appended to success.log, the path is returned, main counts
\* the file and adds the name to already_success
PLog(p) ==
    /\ p_pc[p] = "log"
    /\ successLog' = append_log(successLog, p_target[p])
    /\ p_logged' = [p_logged EXCEPT ![p] = p_logged[p] \cup {p_target[p]}]
    /\ p_saved' = [p_saved EXCEPT ![p] = p_saved[p] + 1]
    /\ p_names' = [p_names EXCEPT ![p] = AddName(p_names[p], p_target[p])]
    /\ PassOn(p)
    /\ UNCHANGED <<disk, failedLog, disk0, log0, p_fetched, p_wrote>>
    /\ PassFrame

\* the rows are exhausted: the summary is printed
PFinish(p) ==
    /\ p_pc[p] = "loop" /\ p_total[p] = Len(iter_csv_rows(csv))
    /\ p_pc' = [p_pc EXCEPT ![p] = "done"]
    /\ UNCHANGED <<disk, successLog, failedLog, disk0, log0, p_names, p_total,
                   p_saved, p_target, p_fetched, p_wrote, p_logged>>
    /\ PassFrame

\* the process of pass p is ended from outside, wherever it stands
PInterrupt(p) ==
    /\ p_pc[p] \in {"loop", "request", "recheck", "open", "read", "log"}
    /\ p_pc' = [p_pc EXCEPT ![p] = "dead"]
    /\ UNCHANGED <<disk, successLog, failedLog, disk0, log0, p_names, p_total,
                   p_saved, p_target, p_fetched, p_wrote, p_logged>>
    /\ PassFrame

PassStep(p) ==
    \/ PBegin(p) \/ PSkipLogged(p) \/ PSkipOnDisk(p) \/ PRequest(p)
    \/ PRespond(p) \/ PRecheck(p) \/ POpen(p) \/ PRead(p) \/ PLog(p)
    \/ PFinish(p)

\* two passes at once over the same target.csv, downloads/ and logs/
NextConcurrent == \E p \in Passes : PassStep(p)

SpecConcurrent == InitPasses /\ [][NextConcurrent]_vars

\* a pass that is interrupted, then a pass over the same input
NextInterrupted ==
    \/ PassStep(1)
    \/ PInterrupt(1)
    \/ (p_pc[1] = "dead" /\ PassStep(2))

SpecInterrupted == InitPasses /\ [][NextInterrupted]_vars


(***************************************************************************)
(* The claims.                                                             *)
(***************************************************************************)
Range(q) == {q[i] : i \in 1..Len(q)}

\* the records of the input and the candidate name of the i-th
Recs == iter_csv_rows(csv)
CandAt(i) == CandidateOf(Recs[i])

\* the candidate names of records recs, one by one
NamesOfRecords(recs) == [i \in 1..Len(recs) |-> CandidateOf(recs[i])]
CandNames == NamesOfRecords(Recs)

\* the records this run has taken
Taken == 1..Len(outcome)

----------------------------------------------------------------------------
\* C1: in the rerun over the same input, ledger and downloads/, no request is
\* sent for a record whose candidate name was on disk or a line of the ledger
\* when the rerun started (which holds all the first run wrote or logged),
\* and no file that existed at its start is opened for writing or changed.
C1_Idempotent ==
    run = 2 =>
        LET cand == CandNames
        IN  /\ \A i \in Range(fetched) :
                  /\ cand[i] \notin DOMAIN disk0
                  /\ cand[i] \notin Range(log0)
            /\ \A n \in Range(opened) : n \notin DOMAIN disk0
            /\ \A n \in DOMAIN disk0 : n \in DOMAIN disk /\ disk[n] = disk0[n]

\* the rerun ends having skipped a record whose file the first run wrote
\* and fetched another one
C1_Witness ==
    /\ run = 2 /\ pc = "done" /\ total = 2
    /\ fetched # <<>>
    /\ \E i \in Taken :
          /\ i \notin Range(fetched)
          /\ CandAt(i) \in DOMAIN disk0
          /\ disk0[CandAt(i)] = [from |-> Recs[i][2], bytes |-> "full"]

----------------------------------------------------------------------------
\* C2: in one pass no name is opened for writing twice and none that was in
\* downloads/ when the pass started; a record whose candidate name is that
\* of an earlier record that ended Ok is skipped, and the file keeps the
\* content the earlier record wrote.
C2_CollisionSafe ==
    /\ \A j, k \in 1..Len(opened) : j # k => opened[j] # opened[k]
    /\ \A n \in Range(opened) : n \notin DOMAIN disk0
    /\ LET cand == CandNames
           recs == Recs
       IN  \A i, j \in Taken :
              (i < j /\ outcome[i] = "Ok" /\ cand[i] = cand[j]) =>
                  /\ outcome[j] \in {"SkipLogged", "SkipDisk"}
                  /\ disk[cand[i]] = [from |-> recs[i][2], bytes |-> "full"]

\* two records with different URLs and the same candidate name: the first
\* ended Ok, the second was skipped
C2_Witness ==
    \E i, j \in Taken :
        /\ i < j /\ Recs[i][2] # Recs[j][2] /\ CandAt(i) = CandAt(j)
        /\ outcome[i] = "Ok" /\ outcome[j] = "SkipLogged"
        /\ disk[CandAt(j)].from = Recs[i][2]

----------------------------------------------------------------------------
TimedOut(resp) == resp.open = "TimeoutError" \/ resp.read = "TimeoutError"

\* C3: after the turn of a record whose request timed out, in urlopen or in
\* response.read(), there is no file under its candidate name, the last line
\* of the failure log holds its URL, the record is not counted in saved and
\* the run goes on.
C3_TimeoutWritesNoFile ==
    (total >= 1 /\ Len(outcome) = total /\ TimedOut(lastResp)) =>
        /\ CandAt(total) \notin DOMAIN disk
        /\ failedLog # <<>>
        /\ failedLog[Len(failedLog)][1] = Recs[total][2]
        /\ outcome[total] = "Failed"
        /\ pc = "running"

----------------------------------------------------------------------------
NumberOf(q, x) == Cardinality({i \in 1..Len(q) : q[i] = x})

IsFailure(resp) ==
    resp.open \in UrlopenErrors \/ (resp.open = "ok" /\ resp.read \in ReadErrors)

\* the exception of a response that is a failure
ErrorOf(resp) == IF resp.open # "ok" THEN resp.open ELSE resp.read

----------------------------------------------------------------------------
\* the record's request failed in the first run, and no other record has its
\* candidate name
FailedBefore(i) == \E k \in 1..Len(flog0) : flog0[k][1] = Recs[i][2]
OnlyOneNamed(i) == \A j \in 1..Len(Recs) : j # i => CandAt(j) # CandAt(i)

\* C5: in the rerun, a record that ended Failed in the first run and shares
\* its candidate name with no other record is fetched again, and a record is
\* fetched only if its file was not in downloads/ when the rerun started.
C5_FailedIsFetchedAgain ==
    run = 2 =>
        \A i \in Taken :
            /\ (FailedBefore(i) /\ OnlyOneNamed(i)) => i \in Range(fetched)
            /\ i \in Range(fetched) => CandAt(i) \notin DOMAIN disk0

----------------------------------------------------------------------------
----------------------------------------------------------------------------
\* C7: a turn of the loop whose candidate name is in already_success ends
\* SkipLogged, whether or not the file is on disk, and writes nothing; a turn
\* whose name is not in already_success but on disk sends no request, leaves
\* downloads/ as it is, appends the name to success.log, adds it to
\* already_success and ends SkipDisk.
C7_ExistsOnDiskSkips ==
    [][(pc = "running" /\ total' = total + 1) =>
         /\ CandAt(total') \in already_success =>
               /\ outcome'[total'] = "SkipLogged"
               /\ fetched' = fetched /\ lastResp' = NoResponse
               /\ disk' = disk /\ successLog' = successLog
         /\ (CandAt(total') \notin already_success /\ CandAt(total') \in DOMAIN disk) =>
               /\ outcome'[total'] = "SkipDisk"
               /\ fetched' = fetched /\ lastResp' = NoResponse
               /\ disk' = disk /\ saved' = saved
               /\ successLog' = Append(successLog, CandAt(total'))
               /\ already_success' = already_success \cup {CandAt(total')}
      ]_vars

\* a record was skipped for its file, which was in downloads/ before the
\* first run and in no line of the ledger
C7_Witness ==
    /\ run = 1 /\ total >= 1
    /\ outcome[total] = "SkipDisk"
    /\ total \notin Range(fetched)
    /\ disk[CandAt(total)] = OldFile
    /\ CandAt(total) \notin load_logged_names(log0)
    /\ successLog = Append(log0, CandAt(total))
    /\ CandAt(total) \in already_success

----------------------------------------------------------------------------
\* the extension of the URL's path and the one of the response's content type
UrlExtAt(i) == PathSuffix(UrlPath(Recs[i][2]))
TypeExt(resp) ==
    IF resp.ctype = NoType THEN <<>> ELSE MimeExtension(MediaType(resp.ctype))
BaseAt(i) == build_base_and_ext(Recs[i][1], Recs[i][2])[1]

\* C8: a record whose URL path has no extension and whose request succeeds
\* is written under the extension of the response's content type when that
\* type maps to one, and under ".bin" when it maps to none.
C8_ContentTypeRefines ==
    (/\ total >= 1 /\ Len(outcome) = total /\ outcome[total] = "Ok"
     /\ UrlExtAt(total) = <<>>) =>
        opened[Len(opened)] =
            BaseAt(total) \o (IF TypeExt(lastResp) # <<>> THEN TypeExt(lastResp)
                              ELSE DotBin)

----------------------------------------------------------------------------
\* C9, as claimed: once the ledger that holds the URL as a line is loaded,
\* the candidate name of the record with that URL is among the names, so the
\* ledger check skips the record.
C9_LegacyLineSkips ==
    n_step \in {"loaded", "named"} => InLedger(n_cand, n_names)

\* the sanitized file name of the URL's path has an extension
HasSafeSuffix(url) == PathSuffix(sanitize_filename(PathName(UrlPath(url)))) # <<>>

\* C9, amended: so it is for every URL whose path ends in a file name that,
\* sanitized, has an extension.
C9_LegacyLineSkipsWithSuffix ==
    (n_step \in {"loaded", "named"} /\ HasSafeSuffix(n_url)) => InLedger(n_cand, n_names)

\* a URL whose file name is changed by sanitize_filename and has an
\* extension: the candidate name is among the names and is not the line
C9_Witness ==
    /\ n_step = "loaded" /\ HasSafeSuffix(n_url)
    /\ sanitize_filename(PathName(UrlPath(n_url))) # PathName(UrlPath(n_url))
    /\ n_cand \in n_names /\ n_cand # n_url

----------------------------------------------------------------------------
\* C10: every BATCH_PAUSE_EVERY-th record of the run is followed by a batch
\* pause, however the record ended.
C10_PauseEveryNth ==
    \A t \in Taken : t % BATCH_PAUSE_EVERY = 0 => t \in sleptAt

----------------------------------------------------------------------------
\* the file name of the URL's path and its extension
UrlFileName(url) == PathName(UrlPath(url))
UrlFileExt(url) == PathSuffix(UrlPath(url))

HasInvalidChar(s) == \E i \in 1..Len(s) : s[i] \in INVALID_CHARS
EndsInWhitespace(s) == s # <<>> /\ s[Len(s)] \in Whitespace

\* C13, as claimed: for a URL whose path ends in a file name with an
\* extension, the extension resolved, the end of the candidate name and the
\* end of the name download_file writes to are that extension, whatever the
\* label and the Content-Type.
C13_ExtensionOfUrl ==
    (n_step = "named" /\ UrlFileExt(n_url) # <<>>) =>
        /\ n_ext = UrlFileExt(n_url)
        /\ n_cand = n_base \o UrlFileExt(n_url)
        /\ n_target = n_cand

\* the extension is left as it is by sanitize_filename
IsCleanExt(ext) == ext # <<>> /\ ~HasInvalidChar(ext) /\ ~EndsInWhitespace(ext)

\* C13, amended: so it is when the extension of the file name holds none of
\* the characters sanitize_filename replaces and does not end in white space.
C13_CleanExtensionOfUrl ==
    (n_step = "named" /\ IsCleanExt(UrlFileExt(n_url))) =>
        /\ n_ext = UrlFileExt(n_url)
        /\ n_cand = n_base \o UrlFileExt(n_url)
        /\ n_target = n_cand

\* a labelled record whose file name is changed by sanitize_filename and
\* whose response has a Content-Type of another extension
C13_Witness ==
    /\ n_step = "named" /\ IsCleanExt(UrlFileExt(n_url))
    /\ n_name # <<>>
    /\ HasInvalidChar(UrlFileName(n_url))
    /\ n_type = "image/jpeg; q=1" /\ UrlFileExt(n_url) # DotJpg
    /\ n_ext = UrlFileExt(n_url)
    /\ n_target = n_base \o UrlFileExt(n_url)

----------------------------------------------------------------------------
\* the URL has no file name: its path is empty or ends with a slash
NoFileName(url) == UrlPath(url) = <<>> \/ UrlPath(url)[Len(UrlPath(url))] = "/"

\* the Content-Type is absent or maps to no extension
UnknownType(ct) == ct = NoType \/ MimeExtension(MediaType(ct)) = <<>>

\* C14: the extension resolved is never empty and starts with a dot, in the
\* candidate name and in the name written to, and for a URL without a file
\* name whose response has an unknown Content-Type it is ".bin".
C14_ExtensionFallback ==
    n_step = "named" =>
        /\ n_ext # <<>> /\ n_ext[1] = "."
        /\ n_target = n_base \o n_ext
        /\ (NoFileName(n_url) /\ UnknownType(n_type)) => n_ext = DotBin

----------------------------------------------------------------------------
\* what the base name is resolved from: the file name of the URL, the label
\* without one, "image" without either
BaseSource(name, url) ==
    IF UrlFileName(url) # <<>> THEN UrlFileName(url)
    ELSE IF name # <<>> THEN name ELSE DefaultLabel

IsBlank(s) == \A i \in 1..Len(s) : s[i] \in Whitespace

\* base is src from its first character that is not white space, one for one,
\* an underscore standing for each invalid character
IsImageOf(base, src, k) ==
    /\ Len(base) <= Len(src) - k
    /\ \A i \in 1..Len(base) :
          base[i] = IF src[i + k] \in INVALID_CHARS THEN "_" ELSE src[i + k]

\* C15: the base name resolved holds no invalid character; it is the
\* placeholder when the label or file name it comes from is empty or white
\* space, and otherwise that label or file name from its first character
\* that is not white space, each invalid character replaced by one
\* underscore and every other character kept.
C15_Sanitized ==
    n_step # "input" =>
        /\ ~HasInvalidChar(n_base)
        /\ IF IsBlank(BaseSource(n_name, n_url))
           THEN n_base = Unnamed
           ELSE IsImageOf(n_base, BaseSource(n_name, n_url),
                          Len(BaseSource(n_name, n_url))
                              - Len(LStrip(BaseSource(n_name, n_url))))

\* a label with an invalid character, for a URL without a file name
C15_Witness ==
    /\ n_step = "resolved"
    /\ UrlFileName(n_url) = <<>>
    /\ n_name = <<"a", ":", "b">>
    /\ n_base = <<"a", "_", "b">>

----------------------------------------------------------------------------
\* the rows of target.csv that iter_csv_rows yields a record for
ValidRows == {i \in 1..Len(csv) : Len(csv[i]) >= 2 /\ Strip(csv[i][2]) # <<>>}

\* the summary of a run that is done, and the state of a run that aborted
SummaryIsRight ==
    /\ pc = "done" =>
          /\ total = Cardinality(ValidRows)
          /\ saved = NumberOf(outcome, "Ok")
          /\ 0 <= saved /\ saved <= total
    /\ ~csvExists =>
          /\ pc \in {"idle", "aborted"}
          /\ total = 0 /\ outcome = <<>> /\ fetched = <<>>
          /\ already_success = {}
          /\ disk = disk0 /\ successLog = log0 /\ failedLog = flog0

----------------------------------------------------------------------------
\* C18: the turn of a record that ends Failed leaves success.log,
\* already_success and saved as they were and appends one line, with the
\* record's URL, to failed.log; a run that starts loads already_success
\* from success.log alone and leaves failed.log as it is.
C18_FailedFrame ==
    [][/\ (/\ pc = "running" /\ total' = total + 1
            /\ (outcome'[total'] = "Failed" \/ IsFailure(lastResp'))) =>
              /\ successLog' = successLog
              /\ already_success' = already_success
              /\ saved' = saved
              /\ Len(failedLog') = Len(failedLog) + 1
              /\ failedLog'[Len(failedLog')][1] = Recs[total'][2]
              /\ SubSeq(failedLog', 1, Len(failedLog)) = failedLog
       /\ (pc # "running" /\ pc' = "running") =>
              /\ already_success' = load_logged_names(successLog)
              /\ failedLog' = failedLog
      ]_vars

\* a record ended Failed after another ended Ok: the ledger holds the one
\* line of the first
C18_Witness ==
    /\ pc = "running" /\ total = 2
    /\ outcome = <<"Ok", "Failed">>
    /\ saved = 1
    /\ successLog = Append(log0, CandAt(1))
    /\ already_success = load_logged_names(log0) \cup {CandAt(1)}
    /\ Len(failedLog) = Len(flog0) + 1

----------------------------------------------------------------------------
NoDuplicate(q) == \A i, j \in 1..Len(q) : i # j => q[i] # q[j]

IsPrefix(q, r) == Len(q) <= Len(r) /\ SubSeq(r, 1, Len(q)) = q

\* C19: success.log is only appended to, and no line of it is written twice.
C19_NoDuplicateLines ==
    /\ IsPrefix(log0, successLog)
    /\ NoDuplicate(successLog)

----------------------------------------------------------------------------
\* C11: whenever a pass is between two records, every name it has appended
\* to success.log, on whichever of the three paths, is in its
\* already_success.
C11_LedgerView ==
    \A p \in Passes :
        p_pc[p] \in {"loop", "done"} => p_logged[p] \subseteq p_names[p]

----------------------------------------------------------------------------
\* the files the interrupted pass left completely written
IsComplete(n) == n \in DOMAIN disk0 /\ disk0[n].bytes = "full"

\* C16: the first pass was interrupted, at whichever step; the pass that
\* follows sends no request for a record whose file the first pass left
\* completely written, logged or not, leaves the file as it is, and once
\* the record is taken the ledger registers its name.
C16_RecoversAfterInterrupt ==
    (p_pc[1] = "dead" /\ p_pc[2] # "idle") =>
        LET cand == CandNames
        IN  \A i \in 1..p_total[2] :
               IsComplete(cand[i]) =>
                   /\ i \notin p_fetched[2]
                   /\ disk[cand[i]] = disk0[cand[i]]
                   /\ cand[i] \in load_logged_names(successLog)

\* the first pass was interrupted between writing a file and logging its
\* name; the second pass is done without a request for the record, with the
\* file as it was and the name logged by the second pass
C16_Witness ==
    /\ p_pc[1] = "dead" /\ p_pc[2] = "done"
    /\ \E i \in 1..p_total[2] :
          /\ IsComplete(CandAt(i))
          /\ disk0[CandAt(i)].from = Recs[i][2]
          /\ CandAt(i) \notin load_logged_names(log0)
          /\ i \notin p_fetched[2]
          /\ disk[CandAt(i)] = disk0[CandAt(i)]
          /\ CandAt(i) \in p_logged[2]
          /\ CandAt(i) \in Range(successLog)

----------------------------------------------------------------------------
\* C17: no name is opened for writing by both of two passes that run at once.
C17_NoDoubleWrite ==
    p_wrote[1] \cap p_wrote[2] = {}

=============================================================================
